---- MODULE Spec2Model ----
(***************************************************************************)
(* data-spy: dev/prod diff of Snowflake tables.                            *)
(*   table_compare.column_level_diff   (SpecColumn)                        *)
(*   table_compare.row_level_diff      (SpecRow)                           *)
(*   table_compare.summary_diff        (SpecSummary)                       *)
(*   table_compare.__init__            (SpecMeta)                          *)
(*   schema_compare batch drivers      (SpecBatch)                         *)
(*   data_spy.main                     (SpecMain)                          *)
(*   snowflake_ctx query dispatch      (SpecSession)                       *)
(* The warehouse (information_schema, the two tables, the model-meta       *)
(* catalog) is the environment: each specification draws it in its Init.   *)
(***************************************************************************)
EXTENDS Integers, Sequences, FiniteSets, Bags, TLC

VARIABLES
    \* ---- warehouse: what the queries of one table_compare read
    dev_info,        \* information_schema rows (column_name, data_type) of the dev table
    prod_columns,    \* column names of the prod table
    columns_to_audit,\* column names whose column_meta['data-diff'] = 'true'
    dev_rows,        \* rows of the dev table
    prod_rows,       \* rows of the prod table
    catalog,         \* model-meta table: model_name -> its record, if any
    \* ---- column_level_diff locals
    col_pc,          \* "init" | "loop" | "returned" | "raised"
    col_err,         \* exception that left column_level_diff, "" if none
    dev_data_types,  \* the ordered dict after the del loop (lines 294-298)
    col_i,           \* position of the outer for loop in dev_data_types
    tests_left,      \* tests of the current column not yet run
    sql_log,         \* queries handed to sql_to_df by the test loop, in order
    df,              \* frame fetched by the last query (line 371)
    df_list,         \* frames appended so far (line 372)
    col_result,      \* value returned by column_level_diff (line 374)
    \* ---- row_level_diff
    row_pc,          \* "idle" | "returned" | "raised": how the last call ended
    row_runs,        \* calls of row_level_diff so far
    row_returns,     \* calls of row_level_diff that returned
    row_table,       \* bag of rows of <dev_table>_row_level_diff in the warehouse
    \* ---- summary_diff
    sum_pc,          \* "idle" | "returned" | "raised"
    sum_err,
    sum_df,          \* the frame summary_diff returned
    \* ---- table_compare.__init__
    meta_pc,         \* "idle" | "constructed" | "raised"
    meta_err,
    meta_args,       \* (schema, table) the constructor was called with
    tc,              \* the constructed table_compare object
    \* ---- schema_compare
    tables_to_compare,  \* set by _set_tables_to_compare in __init__
    empty_prod,      \* tables whose prod snapshot has no row before CURRENT_DATE()
    batch_pc,        \* "idle" | "returned" | "raised"
    batch_op,        \* the batch method that ran
    batch_err,
    batch_attempted, \* tables the for loop reached, in order
    data_diff_summary, \* frames written to the data_diff_summary table
    row_diffed,      \* tables whose _row_level_diff table was materialised
    \* ---- main
    dev_tables,      \* table names information_schema.tables lists for the dev schema
    prod_tables,     \* table names information_schema.tables lists for the prod schema
    main_pc,         \* "idle" | "returned" | "raised"
    main_err,
    main_regex,      \* the regex option main was called with
    main_tiers,      \* batch methods of main that returned, in order
    \* ---- snowflake_ctx
    sessions,        \* connections _connect opened that nothing has closed
    sf_log           \* finished dispatches, in order: (method, outcome, session)

whVars == <<dev_info, prod_columns, columns_to_audit, dev_rows, prod_rows, catalog>>
colVars == <<col_pc, col_err, dev_data_types, col_i, tests_left, sql_log, df,
             df_list, col_result>>
rowVars == <<row_pc, row_runs, row_returns, row_table>>
sumVars == <<sum_pc, sum_err, sum_df>>
metaVars == <<meta_pc, meta_err, meta_args, tc>>

batchVars == <<tables_to_compare, empty_prod, batch_pc, batch_op, batch_err,
               batch_attempted, data_diff_summary, row_diffed>>

mainVars == <<dev_tables, prod_tables, main_pc, main_err, main_regex, main_tiers>>
sfVars == <<sessions, sf_log>>

vars == <<whVars, colVars, rowVars, sumVars, metaVars, batchVars, mainVars, sfVars>>

-----------------------------------------------------------------------------
(* Bounds *)

NumColumns == 2
MaxStat == 3
MaxKey == 2
MaxRuns == 2
MaxDispatches == 3
NumTables == 2

-----------------------------------------------------------------------------
(* Generic helpers *)

RECURSIVE SelectSeqBy(_, _)
\* the subsequence of s whose .name is in S, order kept
SelectSeqBy(s, S) ==
    IF s = <<>> THEN <<>>
    ELSE IF Head(s).name \in S
         THEN <<Head(s)>> \o SelectSeqBy(Tail(s), S)
         ELSE SelectSeqBy(Tail(s), S)

Abs(x) == IF x < 0 THEN -x ELSE x

-----------------------------------------------------------------------------
(* SQL values: NULL, an exact rational n/d (d > 0), or a raised error *)

SqlNull == [tag |-> "null", n |-> 0, d |-> 1]
SqlErr  == [tag |-> "error", n |-> 0, d |-> 1]
Num(k)  == [tag |-> "num", n |-> k, d |-> 1]
Rat(k, m) == [tag |-> "num", n |-> k, d |-> m]

IsNull(v) == v.tag = "null"
IsErr(v)  == v.tag = "error"
IsNum(v)  == v.tag = "num"

\* a - b
SqlSub(a, b) ==
    IF IsErr(a) \/ IsErr(b) THEN SqlErr
    ELSE IF IsNull(a) \/ IsNull(b) THEN SqlNull
    ELSE Rat(a.n * b.d - b.n * a.d, a.d * b.d)

\* NULLIF(a, k): NULL when a = k
SqlNullIf(a, k) ==
    IF IsNum(a) /\ a.n = k * a.d THEN SqlNull ELSE a

\* a / b: Snowflake raises "Division by zero" when b = 0
SqlDiv(a, b) ==
    IF IsErr(a) \/ IsErr(b) THEN SqlErr
    ELSE IF IsNull(a) \/ IsNull(b) THEN SqlNull
    ELSE IF b.n = 0 THEN SqlErr
    ELSE IF b.n > 0 THEN Rat(a.n * b.d, a.d * b.n)
    ELSE Rat(-(a.n * b.d), a.d * (-b.n))

\* ROUND(a, 2): nearest hundredth, halves away from zero; result in hundredths
SqlRound2(a) ==
    IF IsErr(a) THEN SqlErr
    ELSE IF IsNull(a) THEN SqlNull
    ELSE LET m == Abs(a.n) * 100
             q == (2 * m + a.d) \div (2 * a.d)
         IN  Rat(IF a.n < 0 THEN -q ELSE q, 100)

\* TIMESTAMPDIFF('hour', a, b): b - a, timestamps counted in hours
SqlTimestampDiffHour(a, b) == SqlSub(b, a)

\* x :: text
SqlToText(v) ==
    IF IsNum(v) THEN [tag |-> "text", n |-> v.n, d |-> v.d] ELSE v

-----------------------------------------------------------------------------
(* column_data_test_sql.py *)

standard_diff_formula_unguarded(dev, prod) ==
    SqlRound2(SqlDiv(SqlSub(dev, prod), prod))

\* "ROUND(((({dev} - {prod}) / NULLIF({prod}, 0))),2)"
standard_diff_formula(dev, prod) ==
    SqlRound2(SqlDiv(SqlSub(dev, prod), SqlNullIf(prod, 0)))

\* "TIMESTAMPDIFF('hour', {dev}, {prod})"
timestamp_diff_formula(dev, prod) ==
    SqlTimestampDiffHour(dev, prod)

\* the final SELECT of template: both sides and the diff cast to text
template(ctx, dev, prod) ==
    [table_name  |-> ctx.dev_table,
     column_name |-> ctx.column_name,
     test        |-> ctx.test_name,
     prod        |-> SqlToText(prod),
     dev         |-> SqlToText(dev),
     diff        |-> SqlToText(IF ctx.diff_formula = "timestamp_diff_formula"
                               THEN timestamp_diff_formula(dev, prod)
                               ELSE standard_diff_formula(dev, prod))]

-----------------------------------------------------------------------------
(* Warehouse contents the model draws from *)

\* the table under comparison (dev_table = prod_table, lines 30-31)
TheTable == "fct_orders"

NoObject == [dev_table |-> "", prod_table |-> "", dev_schema |-> "",
             dev_pkey |-> "", prod_pkey |-> "",
             dev_freshness_key |-> "", prod_freshness_key |-> ""]

ColumnPool == <<"amount", "id", "notes", "ts">>
Columns == {ColumnPool[i] : i \in 1..NumColumns}

\* data types information_schema.columns may report (lower-cased); the last
\* one stands for every type default_datatype_mapping has no key for
RawTypes == {"number", "float", "text", "boolean",
             "timestamp_ntz", "timestamp_tz", "date", "variant"}

\* statistics a test query can compute on one side
Stats == {SqlNull} \cup {Num(k) : k \in -MaxStat..MaxStat}

\* the statistics used where only the plan is of interest
FewStats == {Num(0)}

\* information_schema rows of one table: distinct column names, any order
InfoSchemas ==
    LET Rows == [name : Columns, type : RawTypes]
    IN  {s \in UNION {[1..n -> Rows] : n \in 0..NumColumns} :
            \A i, j \in DOMAIN s : i # j => s[i].name # s[j].name}

-----------------------------------------------------------------------------
(* table_compare.column_level_diff *)

default_datatype_mapping ==
    [number |-> "number", float |-> "number", text |-> "text",
     boolean |-> "boolean", timestamp_ntz |-> "timestamp",
     timestamp_tz |-> "timestamp", date |-> "timestamp"]

tests_to_run_sorted ==
    [number    |-> <<"avg", "count_nulls", "max", "min", "sum">>,
     text      |-> <<"count_nulls", "unique">>,
     boolean   |-> <<"count_nulls">>,
     timestamp |-> <<"max", "min">>]

tests_to_run ==
    [number    |-> <<"avg", "sum", "min", "max", "count_nulls">>,
     text      |-> <<"count_nulls", "unique">>,
     boolean   |-> <<"count_nulls">>,
     timestamp |-> <<"min", "max">>]

\* get_column_data_types_in_table: dict(zip(names, types)), insertion ordered
get_column_data_types_in_table(info) == info

\* get_columns_in_table: the list of names; only its set() is used here
get_columns_in_table(info) == {info[i].name : i \in DOMAIN info}

columns_to_run_tests_no_audit(dev_cols, prod_cols, audit) ==
    dev_cols \cap prod_cols

\* lines 289-292
columns_to_run_tests(dev_cols, prod_cols, audit) ==
    (dev_cols \cap prod_cols) \cap audit

\* lines 294-298: delete every key that is not to be tested, order kept
filter_data_types(types, keep) == SelectSeqBy(types, keep)

classify_default_text(raw) ==
    IF raw \in DOMAIN default_datatype_mapping
    THEN [raised |-> FALSE, err |-> "", value |-> default_datatype_mapping[raw]]
    ELSE [raised |-> FALSE, err |-> "", value |-> "text"]

\* line 344: default_datatype_mapping[dev_data_types[column]], a dict lookup
\* that raises KeyError for a type that is no key
classify(raw) ==
    IF raw \in DOMAIN default_datatype_mapping
    THEN [raised |-> FALSE, err |-> "", value |-> default_datatype_mapping[raw]]
    ELSE [raised |-> TRUE, err |-> "KeyError", value |-> ""]

diff_formula_for_always_standard(data_type_test, test) ==
    "standard_diff_formula"

\* lines 356-367
diff_formula_for(data_type_test, test) ==
    IF data_type_test = "timestamp" /\ test \in {"min", "max"}
    THEN "timestamp_diff_formula"
    ELSE "standard_diff_formula"

ColDone == col_pc \in {"returned", "raised"}

NoFrame == [table_name |-> "", column_name |-> "", test |-> "",
            prod |-> SqlNull, dev |-> SqlNull, diff |-> SqlNull]

\* lines 272-298: the four metadata queries and the del loop
ColStart ==
    /\ col_pc = "init"
    /\ LET types == get_column_data_types_in_table(dev_info)
           dev_columns == get_columns_in_table(dev_info)
           keep == columns_to_run_tests(dev_columns, prod_columns, columns_to_audit)
       IN  dev_data_types' = filter_data_types(types, keep)
    /\ col_pc' = "loop"
    /\ UNCHANGED <<mainVars, sfVars, whVars, rowVars, sumVars, metaVars, batchVars, col_err, col_i,
                   tests_left, sql_log, df, df_list, col_result>>

\* lines 272-286: one of the four metadata queries raising in sql_to_df
ColStartFails ==
    /\ col_pc = "init"
    /\ col_pc' = "raised"
    /\ col_err' = "QueryExecutionError"
    /\ UNCHANGED <<mainVars, sfVars, whVars, rowVars, sumVars, metaVars, batchVars, dev_data_types,
                   col_i, tests_left, sql_log, df, df_list, col_result>>

\* lines 342-345: next column of the outer loop, its class and its tests
ColNextColumn ==
    /\ col_pc = "loop"
    /\ tests_left = <<>>
    /\ col_i < Len(dev_data_types)
    /\ col_i' = col_i + 1
    /\ LET data_type_test == classify(dev_data_types[col_i + 1].type)
       IN  IF data_type_test.raised
           THEN /\ col_pc' = "raised"
                /\ col_err' = data_type_test.err
                /\ UNCHANGED tests_left
           ELSE /\ tests_left' = tests_to_run[data_type_test.value]
                /\ UNCHANGED <<col_pc, col_err>>
    /\ UNCHANGED <<mainVars, sfVars, whVars, rowVars, sumVars, metaVars, batchVars, dev_data_types,
                   sql_log, df, df_list, col_result>>

\* lines 347-372: one test of the current column. The query is rendered and
\* handed to sql_to_df; the warehouse either fails it or computes the two
\* statistics (drawn from S) and the diff, which may itself raise.
ColRunTest(S) ==
    /\ col_pc = "loop"
    /\ tests_left # <<>>
    /\ LET column == dev_data_types[col_i].name
           data_type_test == classify(dev_data_types[col_i].type).value
           test == Head(tests_left)
           ctx == [dev_table |-> TheTable, column_name |-> column,
                   test_name |-> test,
                   diff_formula |-> diff_formula_for(data_type_test, test)]
       IN  /\ sql_log' = Append(sql_log, ctx)
           /\ \/ /\ col_pc' = "raised"
                 /\ col_err' = "QueryExecutionError"
                 /\ UNCHANGED <<tests_left, df, df_list>>
              \/ \E dev \in S, prod \in S :
                   LET row == template(ctx, dev, prod)
                   IN  IF IsErr(row.diff)
                       THEN /\ col_pc' = "raised"
                            /\ col_err' = "DivisionByZero"
                            /\ UNCHANGED <<tests_left, df, df_list>>
                       ELSE /\ df' = row
                            /\ df_list' = Append(df_list, ctx)
                            /\ tests_left' = Tail(tests_left)
                            /\ UNCHANGED <<col_pc, col_err>>
    /\ UNCHANGED <<mainVars, sfVars, whVars, rowVars, sumVars, metaVars, batchVars, dev_data_types,
                   col_i, col_result>>

\* line 374: pd.concat raises ValueError on an empty list
ColConcat ==
    /\ col_pc = "loop"
    /\ tests_left = <<>>
    /\ col_i = Len(dev_data_types)
    /\ IF df_list = <<>>
       THEN /\ col_pc' = "raised"
            /\ col_err' = "ValueError"
            /\ UNCHANGED col_result
       ELSE /\ col_pc' = "returned"
            /\ col_result' = df_list
            /\ UNCHANGED col_err
    /\ UNCHANGED <<mainVars, sfVars, whVars, rowVars, sumVars, metaVars, batchVars, dev_data_types,
                   col_i, tests_left, sql_log, df, df_list>>

ColLocalsInit ==
    /\ col_pc = "init"
    /\ col_err = ""
    /\ dev_data_types = <<>>
    /\ col_i = 0
    /\ tests_left = <<>>
    /\ sql_log = <<>>
    /\ df = NoFrame
    /\ df_list = <<>>
    /\ col_result = <<>>

-----------------------------------------------------------------------------
(* Rows of the two tables *)

KeyValues == {SqlNull} \cup {Num(k) : k \in 1..MaxKey}
CellValues == {Num(0), Num(1)}

\* a row: its primary key expression, one other column, and whether
\* freshness_key < CURRENT_DATE() holds for it
TableRows == [pk : KeyValues, val : CellValues, fresh : BOOLEAN]

\* a table: the declared primary key identifies a row, unless it is NULL
\* (nothing in the warehouse enforces NOT NULL); one NULL-keyed row at most
TableStatesOver(V) ==
    {{[pk |-> k, val |-> f[k].val, fresh |-> f[k].fresh] :
            k \in {x \in KeyValues : f[x].present}} :
        f \in [KeyValues -> [present : BOOLEAN, val : V, fresh : BOOLEAN]]}

TableStates == TableStatesOver(CellValues)

\* the prod tables drawn: the other column holds 0 in every row, so that a
\* key on both sides comes with an equal and with a different dev value
KeyOnlyTableStates == TableStatesOver({Num(0)})

-----------------------------------------------------------------------------
(* table_compare.row_level_diff *)

\* lines 414-417: the CASE of the joined CTE
diff_type(dev_primary_key, prod_primary_key) ==
    IF ~IsNull(dev_primary_key) /\ IsNull(prod_primary_key) THEN "addition"
    ELSE IF IsNull(dev_primary_key) /\ ~IsNull(prod_primary_key) THEN "deletion"
    ELSE "equal"

\* lines 392-410: the dev and prod CTEs, freshness-filtered
side_cte(rows) == {[primary_key |-> r.pk, val |-> r.val] : r \in {x \in rows : x.fresh}}

\* a.dev_primary_key = b.prod_primary_key is TRUE only for two equal non-NULL keys
join_condition(a, b) ==
    IsNum(a.primary_key) /\ IsNum(b.primary_key) /\ a.primary_key = b.primary_key

joined_row(dev_pk, dev_val, prod_pk, prod_val) ==
    [diff_type |-> diff_type(dev_pk, prod_pk),
     dev_primary_key |-> dev_pk, dev_val |-> dev_val,
     prod_primary_key |-> prod_pk, prod_val |-> prod_val]

\* lines 412-422: FULL OUTER JOIN, the side without a match all NULL
joined(dev, prod) ==
    {joined_row(a.primary_key, a.val, b.primary_key, b.val) :
        <<a, b>> \in {p \in dev \X prod : join_condition(p[1], p[2])}}
    \cup
    {joined_row(a.primary_key, a.val, SqlNull, SqlNull) :
        a \in {x \in dev : \A b \in prod : ~join_condition(x, b)}}
    \cup
    {joined_row(SqlNull, SqlNull, b.primary_key, b.val) :
        b \in {x \in prod : \A a \in dev : ~join_condition(a, x)}}

create_table_append(old, rows) == old (+) SetToBag(rows)

\* line 390: CREATE OR REPLACE TABLE ... AS
create_or_replace_table(old, rows) == SetToBag(rows)

\* lines 376-449, the query succeeding
RowLevelDiff ==
    /\ row_runs < MaxRuns
    /\ row_runs' = row_runs + 1
    /\ row_table' = create_or_replace_table(row_table,
                        joined(side_cte(dev_rows), side_cte(prod_rows)))
    /\ row_pc' = "returned"
    /\ row_returns' = row_returns + 1
    /\ UNCHANGED <<mainVars, sfVars, whVars, colVars, sumVars, metaVars, batchVars>>

\* lines 376-449, execute_sql raising: nothing is replaced
RowLevelDiffFails ==
    /\ row_runs < MaxRuns
    /\ row_runs' = row_runs + 1
    /\ row_pc' = "raised"
    /\ UNCHANGED <<row_table, row_returns, mainVars, sfVars, whVars, colVars, sumVars, metaVars, batchVars>>

-----------------------------------------------------------------------------
(* table_compare.summary_diff *)

\* COUNT(*) of a freshness-filtered CTE
count_rows(rows) == Cardinality({r \in rows : r.fresh})

\* COUNT(DISTINCT pkey) of a freshness-filtered CTE: NULLs are not counted
count_distinct_pkey(rows) ==
    Cardinality({r.pk : r \in {x \in rows : x.fresh /\ IsNum(x.pk)}})

\* lines 250, 253, 256: ((dev - prod) / prod)
pct_diff(dev, prod) == SqlDiv(SqlSub(Num(dev), Num(prod)), Num(prod))

\* lines 230-260: the summary query on the six counts
summary_diff(table, c) ==
    LET rowcount_diff == pct_diff(c.rowcount_dev, c.rowcount_prod)
        column_count_diff == pct_diff(c.column_count_dev, c.column_count_prod)
        distinct_pkey_diff == pct_diff(c.distinct_pkey_dev, c.distinct_pkey_prod)
    IN  IF IsErr(rowcount_diff) \/ IsErr(column_count_diff) \/ IsErr(distinct_pkey_diff)
        THEN [raised |-> TRUE, err |-> "DivisionByZero", value |-> <<>>]
        ELSE [raised |-> FALSE, err |-> "",
              value |-> <<[table_name |-> table,
                           rowcount_dev |-> c.rowcount_dev,
                           rowcount_prod |-> c.rowcount_prod,
                           rowcount_diff |-> rowcount_diff,
                           column_count_dev |-> c.column_count_dev,
                           column_count_prod |-> c.column_count_prod,
                           column_count_diff |-> column_count_diff,
                           distinct_pkey_dev |-> c.distinct_pkey_dev,
                           distinct_pkey_prod |-> c.distinct_pkey_prod,
                           distinct_pkey_diff |-> distinct_pkey_diff]>>]

\* the six counts the query's scalar subqueries read from the warehouse
WarehouseCounts ==
    [rowcount_dev |-> count_rows(dev_rows),
     rowcount_prod |-> count_rows(prod_rows),
     column_count_dev |-> Len(dev_info),
     column_count_prod |-> Cardinality(prod_columns),
     distinct_pkey_dev |-> count_distinct_pkey(dev_rows),
     distinct_pkey_prod |-> count_distinct_pkey(prod_rows)]

\* lines 221-260
SummaryDiff ==
    /\ sum_pc = "idle"
    /\ LET r == summary_diff(TheTable, WarehouseCounts)
       IN  /\ sum_pc' = IF r.raised THEN "raised" ELSE "returned"
           /\ sum_err' = r.err
           /\ sum_df' = r.value
    /\ UNCHANGED <<mainVars, sfVars, whVars, colVars, rowVars, metaVars, batchVars>>

\* lines 221-260, sql_to_df raising for a reason of the warehouse's own
SummaryDiffFails ==
    /\ sum_pc = "idle"
    /\ sum_pc' = "raised"
    /\ sum_err' = "QueryExecutionError"
    /\ UNCHANGED <<sum_df, mainVars, sfVars, whVars, colVars, rowVars, metaVars, batchVars>>

-----------------------------------------------------------------------------
(* snowflake_ctx.execute_sql_and_return_single_value, table_compare.__init__ *)

TablePool == <<"dim_customers", "fct_orders", "fct_items">>
TableNames == {TablePool[i] : i \in 1..NumTables}
DevSchemas == {"dev_akhoudary"}

SqlStr(x) == [isnull |-> FALSE, s |-> x]
SqlNullStr == [isnull |-> TRUE, s |-> ""]

\* a model-meta record: whether the table has one, and its two attributes
CatalogRecords ==
    [present : BOOLEAN,
     pkey : {SqlNullStr, SqlStr("id")},
     fkey : {SqlNullStr, SqlStr("updated_at")}]

\* Python's str(): str(None) is the text "None"
py_str(v) == IF v.isnull THEN "None" ELSE v.s

\* lines 65-68: str(cur.fetchone()[0]); fetchone() is None without a row
execute_sql_and_return_single_value(rows) ==
    IF rows = <<>>
    THEN [raised |-> TRUE, err |-> "TypeError", value |-> ""]
    ELSE [raised |-> FALSE, err |-> "", value |-> py_str(rows[1])]

\* lines 82-88: model_meta['primary-key'] :: string WHERE model_name = table
get_primary_key(cat, table) ==
    execute_sql_and_return_single_value(
        IF cat[table].present THEN <<cat[table].pkey>> ELSE <<>>)

\* lines 100-107
get_freshness_key(cat, table) ==
    execute_sql_and_return_single_value(
        IF cat[table].present THEN <<cat[table].fkey>> ELSE <<>>)

\* lines 28-47: the four lookups in order, the first exception leaving __init__
table_compare_init(cat, schema, table) ==
    LET dev_pkey == get_primary_key(cat, table)
        prod_pkey == get_primary_key(cat, table)
        dev_freshness_key == get_freshness_key(cat, table)
        prod_freshness_key == get_freshness_key(cat, table)
    IN  IF dev_pkey.raised THEN [raised |-> TRUE, err |-> dev_pkey.err, value |-> NoObject]
        ELSE IF prod_pkey.raised THEN [raised |-> TRUE, err |-> prod_pkey.err, value |-> NoObject]
        ELSE IF dev_freshness_key.raised
             THEN [raised |-> TRUE, err |-> dev_freshness_key.err, value |-> NoObject]
        ELSE IF prod_freshness_key.raised
             THEN [raised |-> TRUE, err |-> prod_freshness_key.err, value |-> NoObject]
        ELSE [raised |-> FALSE, err |-> "",
              value |-> [dev_table |-> table, prod_table |-> table,
                         dev_schema |-> schema,
                         dev_pkey |-> dev_pkey.value,
                         prod_pkey |-> prod_pkey.value,
                         dev_freshness_key |-> dev_freshness_key.value,
                         prod_freshness_key |-> prod_freshness_key.value]]

\* table_compare(schema, table)
TableCompareInit(schema, table) ==
    /\ meta_pc = "idle"
    /\ meta_args' = <<schema, table>>
    /\ LET r == table_compare_init(catalog, schema, table)
       IN  /\ meta_pc' = IF r.raised THEN "raised" ELSE "constructed"
           /\ meta_err' = r.err
           /\ tc' = r.value
    /\ UNCHANGED <<mainVars, sfVars, whVars, colVars, rowVars, sumVars, batchVars>>

\* table_compare(schema, table), a lookup query raising in the warehouse
TableCompareInitFails(schema, table) ==
    /\ meta_pc = "idle"
    /\ meta_args' = <<schema, table>>
    /\ meta_pc' = "raised"
    /\ meta_err' = "QueryExecutionError"
    /\ UNCHANGED <<tc, mainVars, sfVars, whVars, colVars, rowVars, sumVars, batchVars>>

-----------------------------------------------------------------------------
(* schema_compare.schema_compare_summary_diff / schema_compare_row_level_diff *)

\* binding the arguments of a table_compare(...) call to __init__(self, schema,
\* table): a call with another number of arguments raises TypeError
table_compare_call(cat, args) ==
    IF Len(args) # 2
    THEN [raised |-> TRUE, err |-> "TypeError", value |-> NoObject]
    ELSE table_compare_init(cat, args[1], args[2])

\* the counts the summary query of one table of the batch reads
CountsOf(empty, table) ==
    [rowcount_dev |-> 1,
     rowcount_prod |-> IF table \in empty THEN 0 ELSE 1,
     column_count_dev |-> 1, column_count_prod |-> 1,
     distinct_pkey_dev |-> 1,
     distinct_pkey_prod |-> IF table \in empty THEN 0 ELSE 1]

RECURSIVE summary_loop(_, _, _, _, _)
\* lines 95-99: for table in tables: tc = table_compare(table);
\* df = tc.summary_diff(); df_list.append(df). No exception is caught.
summary_loop(cat, empty, tables, frames, attempted) ==
    IF tables = <<>>
    THEN [raised |-> FALSE, err |-> "", df_list |-> frames, attempted |-> attempted]
    ELSE LET table == Head(tables)
             obj == table_compare_call(cat, <<table>>)
             frame == summary_diff(obj.value.dev_table, CountsOf(empty, table))
             reached == Append(attempted, table)
         IN  IF obj.raised
             THEN [raised |-> TRUE, err |-> obj.err, df_list |-> frames,
                   attempted |-> reached]
             ELSE IF frame.raised
             THEN [raised |-> TRUE, err |-> frame.err, df_list |-> frames,
                   attempted |-> reached]
             ELSE summary_loop(cat, empty, Tail(tables), frames \o frame.value, reached)

RECURSIVE row_level_loop(_, _, _, _)
\* lines 122-125: for table in tables: tc = table_compare(table);
\* tc.row_level_diff(). No exception is caught.
row_level_loop(cat, tables, done, attempted) ==
    IF tables = <<>>
    THEN [raised |-> FALSE, err |-> "", done |-> done, attempted |-> attempted]
    ELSE LET table == Head(tables)
             obj == table_compare_call(cat, <<table>>)
             reached == Append(attempted, table)
         IN  IF obj.raised
             THEN [raised |-> TRUE, err |-> obj.err, done |-> done,
                   attempted |-> reached]
             ELSE row_level_loop(cat, Tail(tables), done \cup {table}, reached)

no_tables_always_false(tables) == FALSE

\* line 89: not self.tables_to_compare
no_tables(tables) == tables = <<>>

\* line 102: pd.concat(df_list); pandas raises ValueError on an empty list
pd_concat(frames) ==
    IF frames = <<>>
    THEN [raised |-> TRUE, err |-> "ValueError", value |-> <<>>]
    ELSE [raised |-> FALSE, err |-> "", value |-> frames]

\* lines 79-109, as a function of what the method reads: the tables the
\* loop reached and the content of data_diff_summary when the method ends
schema_compare_summary_diff(cat, empty, tables, written) ==
    IF no_tables(tables)
    THEN [raised |-> FALSE, err |-> "", attempted |-> <<>>,
          data_diff_summary |-> written]
    ELSE LET r == summary_loop(cat, empty, tables, <<>>, <<>>)
             summary_df == pd_concat(r.df_list)
         IN  IF r.raised
             THEN [raised |-> TRUE, err |-> r.err, attempted |-> r.attempted,
                   data_diff_summary |-> written]
             ELSE IF summary_df.raised
             THEN [raised |-> TRUE, err |-> summary_df.err,
                   attempted |-> r.attempted, data_diff_summary |-> written]
             ELSE [raised |-> FALSE, err |-> "", attempted |-> r.attempted,
                   data_diff_summary |-> summary_df.value]

\* lines 111-125, as a function of what the method reads
schema_compare_row_level_diff(cat, tables) == row_level_loop(cat, tables, {}, <<>>)

\* lines 79-109
SchemaCompareSummaryDiff ==
    /\ batch_pc = "idle"
    /\ batch_op' = "schema_compare_summary_diff"
    /\ LET r == schema_compare_summary_diff(catalog, empty_prod, tables_to_compare,
                                            data_diff_summary)
       IN  /\ batch_attempted' = r.attempted
           /\ batch_err' = r.err
           /\ batch_pc' = IF r.raised THEN "raised" ELSE "returned"
           /\ data_diff_summary' = r.data_diff_summary
    /\ UNCHANGED <<tables_to_compare, empty_prod, row_diffed,
                   mainVars, sfVars, whVars, colVars, rowVars, sumVars, metaVars>>

\* lines 111-125
SchemaCompareRowLevelDiff ==
    /\ batch_pc = "idle"
    /\ batch_op' = "schema_compare_row_level_diff"
    /\ LET r == schema_compare_row_level_diff(catalog, tables_to_compare)
       IN  /\ batch_attempted' = r.attempted
           /\ batch_err' = r.err
           /\ batch_pc' = IF r.raised THEN "raised" ELSE "returned"
           /\ row_diffed' = r.done
    /\ UNCHANGED <<tables_to_compare, empty_prod, data_diff_summary,
                   mainVars, sfVars, whVars, colVars, rowVars, sumVars, metaVars>>

-----------------------------------------------------------------------------
(* schema_compare.__init__ and data_spy.main *)

\* names information_schema.tables can list: the batch tables and a staging one
StagingTable == "stg_orders"
SchemaTables == TableNames \cup {StagingTable}

\* the values of the --regex option: None when it is not given
NoRegex == "None"
Regexes == {NoRegex, "fct_.*", "stg_.*"}

\* lines 37-40: if not table_regex: "fct_.*|dim_.*" else table_regex
table_regex(regex) == IF regex = NoRegex THEN "fct_.*|dim_.*" ELSE regex

\* the alternatives of a pattern, each a literal prefix followed by .*
alternatives(pattern) ==
    CASE pattern = "fct_.*|dim_.*" -> {"fct_", "dim_"}
      [] pattern = "fct_.*" -> {"fct_"}
      [] pattern = "stg_.*" -> {"stg_"}

prefix_of(table_name) ==
    CASE table_name \in {"fct_orders", "fct_items"} -> "fct_"
      [] table_name = "dim_customers" -> "dim_"
      [] table_name = StagingTable -> "stg_"

\* RLIKE(LOWER(table_name), pattern, 'i') of lines 63 and 70
RLIKE(table_name, pattern) == prefix_of(table_name) \in alternatives(pattern)

\* lines 58-72: the result set of the query, in no particular order
set_tables_to_compare(dev, prod, pattern) ==
    LET prod_matching == {t \in prod : RLIKE(t, pattern)}
    IN  {t \in dev : RLIKE(t, pattern) /\ t \in prod_matching}

\* the orders in which the rows of a result set can come back
Orderings(S) ==
    {l \in [1..Cardinality(S) -> S] : \A i, j \in DOMAIN l : i # j => l[i] # l[j]}

\* the methods class schema_compare defines (lines 23, 46, 79, 111)
schema_compare_methods ==
    {"__init__", "_set_tables_to_compare", "schema_compare_summary_diff",
     "schema_compare_row_level_diff"}
has_method(name) == name \in schema_compare_methods

\* data_spy.py lines 28-30: the three calls on sc, none inside a try; s and
\* r are what the summary and the row-level method do when they are called
main_calls(s, r, done) ==
    IF s.raised
    THEN [raised |-> TRUE, err |-> s.err, tiers |-> <<>>,
          data_diff_summary |-> s.data_diff_summary, row_diffed |-> done]
    ELSE IF ~has_method("schema_compare_column_level_diff")
    THEN [raised |-> TRUE, err |-> "AttributeError", tiers |-> <<"summary">>,
          data_diff_summary |-> s.data_diff_summary, row_diffed |-> done]
    ELSE IF r.raised
    THEN [raised |-> TRUE, err |-> r.err,
          tiers |-> <<"summary", "column_level">>,
          data_diff_summary |-> s.data_diff_summary, row_diffed |-> r.done]
    ELSE [raised |-> FALSE, err |-> "",
          tiers |-> <<"summary", "column_level", "row_level">>,
          data_diff_summary |-> s.data_diff_summary, row_diffed |-> r.done]

\* data_spy.py lines 26-30, sc.tables_to_compare being tables
main(cat, empty, tables, written, done) ==
    main_calls(schema_compare_summary_diff(cat, empty, tables, written),
               schema_compare_row_level_diff(cat, tables), done)

\* data_spy.py lines 14-30: main(database, schema, regex)
Main(database, schema, regex) ==
    /\ main_pc = "idle"
    /\ main_regex' = regex
    /\ \E tables \in Orderings(set_tables_to_compare(dev_tables, prod_tables,
                                                     table_regex(regex))) :
          \E m \in {main(catalog, empty_prod, tables, data_diff_summary, row_diffed)} :
              /\ tables_to_compare' = tables
              /\ main_pc' = IF m.raised THEN "raised" ELSE "returned"
              /\ main_err' = m.err
              /\ main_tiers' = m.tiers
              /\ data_diff_summary' = m.data_diff_summary
              /\ row_diffed' = m.row_diffed
    /\ UNCHANGED <<dev_tables, prod_tables, empty_prod, batch_pc, batch_op,
                   batch_err, batch_attempted,
                   sfVars, whVars, colVars, rowVars, sumVars, metaVars>>

-----------------------------------------------------------------------------
(* snowflake_ctx: query dispatch *)

\* how a dispatch can end: _connect raising, cursor.execute raising, the
\* fetch raising (fetchone() is None, fetch_pandas_all fails), a normal return
NoSession == 0
ExecuteOutcomes == {"connect_raised", "execute_raised", "returned"}
FetchOutcomes == ExecuteOutcomes \cup {"fetch_raised"}

\* lines 35-46: snowflake.connector.connect(...) opens a session and returns it
connect(open, id) == open \cup {id}

\* lines 48-78: every dispatch is  self._connect().cursor()  followed by
\* execute and, for two of them, a fetch. The connection is bound to no
\* name, no with block or try/finally surrounds it and close() is never
\* called, so the sessions open after the dispatch are those open after
\* _connect, whichever way the dispatch ends.
dispatch(open, id, outcome) ==
    IF outcome = "connect_raised"
    THEN [sessions |-> open, session |-> NoSession]
    ELSE [sessions |-> connect(open, id), session |-> id]

Dispatch(method, outcome) ==
    /\ Len(sf_log) < MaxDispatches
    /\ LET d == dispatch(sessions, Len(sf_log) + 1, outcome)
       IN  /\ sessions' = d.sessions
           /\ sf_log' = Append(sf_log, [method |-> method, outcome |-> outcome,
                                        session |-> d.session])
    /\ UNCHANGED <<mainVars, whVars, colVars, rowVars, sumVars, metaVars, batchVars>>

\* lines 48-53
ExecuteSql == \E outcome \in ExecuteOutcomes : Dispatch("execute_sql", outcome)

\* lines 55-68
ExecuteSqlAndReturnSingleValue ==
    \E outcome \in FetchOutcomes :
        Dispatch("execute_sql_and_return_single_value", outcome)

\* lines 70-78
SqlToDf == \E outcome \in FetchOutcomes : Dispatch("sql_to_df", outcome)

-----------------------------------------------------------------------------
(* Specifications *)

RowLocalsInit ==
    row_pc = "idle" /\ row_runs = 0 /\ row_returns = 0 /\ row_table = EmptyBag
SumLocalsInit == sum_pc = "idle" /\ sum_err = "" /\ sum_df = <<>>
MetaLocalsInit ==
    meta_pc = "idle" /\ meta_err = "" /\ meta_args = <<>> /\ tc = NoObject

BatchLocalsInit ==
    /\ batch_pc = "idle" /\ batch_op = "" /\ batch_err = ""
    /\ batch_attempted = <<>> /\ data_diff_summary = <<>> /\ row_diffed = {}
NoBatchInit == tables_to_compare = <<>> /\ empty_prod = {}

MainLocalsInit ==
    main_pc = "idle" /\ main_err = "" /\ main_regex = NoRegex /\ main_tiers = <<>>
NoSchemaInit == dev_tables = {} /\ prod_tables = {}
SfLocalsInit == sessions = {} /\ sf_log = <<>>

LocalsInit ==
    /\ ColLocalsInit /\ RowLocalsInit /\ SumLocalsInit /\ MetaLocalsInit
    /\ BatchLocalsInit
    /\ MainLocalsInit /\ NoSchemaInit
    /\ SfLocalsInit

NoRowsInit == dev_rows = {} /\ prod_rows = {}
NoColumnsInit == dev_info = <<>> /\ prod_columns = {} /\ columns_to_audit = {}
NoCatalogInit == catalog = <<>>

InitColumn ==
    /\ dev_info \in InfoSchemas
    /\ prod_columns \in SUBSET Columns
    /\ columns_to_audit \in SUBSET Columns
    /\ NoRowsInit /\ NoCatalogInit
    /\ NoBatchInit
    /\ LocalsInit

NextColumn ==
    \/ ColStart
    \/ ColStartFails
    \/ ColNextColumn
    \/ ColRunTest(FewStats)
    \/ ColConcat

SpecColumn == InitColumn /\ [][NextColumn]_vars

\* one audited column on both sides, every statistic the warehouse can answer
InitDiff ==
    /\ dev_info \in {s \in InfoSchemas : Len(s) = 1}
    /\ prod_columns = get_columns_in_table(dev_info)
    /\ columns_to_audit = prod_columns
    /\ NoRowsInit /\ NoCatalogInit
    /\ NoBatchInit
    /\ LocalsInit

NextDiff ==
    \/ ColStart
    \/ ColStartFails
    \/ ColNextColumn
    \/ ColRunTest(Stats)
    \/ ColConcat

SpecDiff == InitDiff /\ [][NextDiff]_vars

InitRow ==
    /\ dev_rows \in TableStates
    /\ prod_rows \in KeyOnlyTableStates
    /\ NoColumnsInit /\ NoCatalogInit
    /\ NoBatchInit
    /\ LocalsInit

NextRow ==
    \/ RowLevelDiff
    \/ RowLevelDiffFails

SpecRow == InitRow /\ [][NextRow]_vars

InitSummary ==
    /\ dev_rows \in KeyOnlyTableStates
    /\ prod_rows \in KeyOnlyTableStates
    /\ dev_info \in {s \in InfoSchemas :
                        Len(s) >= 1 /\ \A i \in DOMAIN s : s[i].type = "number"}
    /\ prod_columns \in (SUBSET Columns) \ {{}}
    /\ columns_to_audit = {}
    /\ NoCatalogInit
    /\ NoBatchInit
    /\ LocalsInit

NextSummary ==
    \/ SummaryDiff
    \/ SummaryDiffFails

SpecSummary == InitSummary /\ [][NextSummary]_vars

InitMeta ==
    /\ catalog \in [TableNames -> CatalogRecords]
    /\ NoRowsInit /\ NoColumnsInit
    /\ NoBatchInit
    /\ LocalsInit

NextMeta ==
    \E schema \in DevSchemas, table \in TableNames :
        \/ TableCompareInit(schema, table)
        \/ TableCompareInitFails(schema, table)

SpecMeta == InitMeta /\ [][NextMeta]_vars

\* the lists _set_tables_to_compare can return: distinct table names
TableLists ==
    {l \in UNION {[1..n -> TableNames] : n \in 0..NumTables} :
        \A i, j \in DOMAIN l : i # j => l[i] # l[j]}

InitBatch ==
    /\ tables_to_compare \in TableLists
    /\ empty_prod \in SUBSET TableNames
    /\ catalog \in [TableNames -> CatalogRecords]
    /\ NoRowsInit /\ NoColumnsInit
    /\ LocalsInit

NextBatch ==
    \/ SchemaCompareSummaryDiff
    \/ SchemaCompareRowLevelDiff

SpecBatch == InitBatch /\ [][NextBatch]_vars

\* a model-meta record with both keys, and none
FullRecord == [present |-> TRUE, pkey |-> SqlStr("id"), fkey |-> SqlStr("updated_at")]
NoRecord == [present |-> FALSE, pkey |-> SqlNullStr, fkey |-> SqlNullStr]

InitMain ==
    /\ dev_tables \in SUBSET SchemaTables
    /\ prod_tables \in SUBSET SchemaTables
    /\ catalog \in [SchemaTables -> {FullRecord, NoRecord}]
    /\ empty_prod \in {{}, SchemaTables}
    /\ tables_to_compare = <<>>
    /\ NoRowsInit /\ NoColumnsInit
    /\ ColLocalsInit /\ RowLocalsInit /\ SumLocalsInit /\ MetaLocalsInit
    /\ BatchLocalsInit /\ MainLocalsInit /\ SfLocalsInit

NextMain ==
    \E database \in {"analytics"}, schema \in DevSchemas, regex \in Regexes :
        Main(database, schema, regex)

SpecMain == InitMain /\ [][NextMain]_vars

InitSession ==
    /\ NoRowsInit /\ NoColumnsInit /\ NoCatalogInit
    /\ NoBatchInit
    /\ LocalsInit

NextSession ==
    \/ ExecuteSql
    \/ ExecuteSqlAndReturnSingleValue
    \/ SqlToDf

SpecSession == InitSession /\ [][NextSession]_vars

-----------------------------------------------------------------------------
(* Properties of column_level_diff *)

DevColumns == {dev_info[i].name : i \in DOMAIN dev_info}
Candidates == DevColumns \cap prod_columns \cap columns_to_audit
RawTypeOf(c) == dev_info[CHOOSE i \in DOMAIN dev_info : dev_info[i].name = c].type

KnownRawTypes == {"number", "float", "text", "boolean",
                  "timestamp_ntz", "timestamp_tz", "date"}
TemporalRawTypes == {"timestamp_ntz", "timestamp_tz", "date"}

Tested(c) == \E i \in DOMAIN sql_log : sql_log[i].column_name = c

\* C1 as stated: once column_level_diff has ended, a column has had a test
\* query submitted if and only if it is in dev, in prod and audited.
C1_TestedIffCandidate ==
    ColDone => \A c \in Columns : Tested(c) <=> c \in Candidates

\* C1 amended: a test query is only ever submitted for a column that is in
\* dev, in prod and audited, and when column_level_diff returns every such
\* column has had one submitted.
C1_TestedOnlyCandidates_AllWhenReturned ==
    /\ \A c \in Columns : Tested(c) => c \in Candidates
    /\ col_pc = "returned" => \A c \in Candidates : Tested(c)

\* a returned run that tested one column and left out a column that both
\* sides have but the audit list has not
C1_Witness ==
    /\ col_pc = "returned"
    /\ \E c \in Columns : Tested(c)
    /\ \E c \in (DevColumns \cap prod_columns) \ columns_to_audit : ~Tested(c)

\* C2: every submitted (column, test) query carries the hour-difference
\* formula if the column's raw type is timestamp_ntz, timestamp_tz or date
\* and the percentage-change formula otherwise; no column has both.
C2_DiffFormulaByClass ==
    /\ \A i \in DOMAIN sql_log :
         sql_log[i].diff_formula =
            IF RawTypeOf(sql_log[i].column_name) \in TemporalRawTypes
            THEN "timestamp_diff_formula" ELSE "standard_diff_formula"
    /\ \A i, j \in DOMAIN sql_log :
         sql_log[i].column_name = sql_log[j].column_name
            => sql_log[i].diff_formula = sql_log[j].diff_formula

\* a run that tested a temporal and a non-temporal column
C2_Witness ==
    /\ col_pc = "returned"
    /\ \E i, j \in DOMAIN sql_log :
         /\ sql_log[i].diff_formula = "timestamp_diff_formula"
         /\ sql_log[i].test_name = "max"
         /\ sql_log[j].diff_formula = "standard_diff_formula"

\* the test bundle of a raw type, as the claim lists it
BundleOf(raw) ==
    CASE raw \in {"number", "float"} -> <<"avg", "sum", "min", "max", "count_nulls">>
      [] raw = "text" -> <<"count_nulls", "unique">>
      [] raw = "boolean" -> <<"count_nulls">>
      [] raw \in TemporalRawTypes -> <<"min", "max">>
      [] OTHER -> <<>>

RECURSIVE PlanFrom(_)
\* (column, test) pairs: candidates in information_schema order, each with
\* its bundle in bundle order
PlanFrom(info) ==
    IF info = <<>> THEN <<>>
    ELSE (IF Head(info).name \in Candidates
          THEN [k \in DOMAIN BundleOf(Head(info).type) |->
                    <<Head(info).name, BundleOf(Head(info).type)[k]>>]
          ELSE <<>>) \o PlanFrom(Tail(info))

\* C3: the table column_level_diff returns holds exactly one result per
\* planned (column, test) pair, columns in their insertion order and tests in
\* the bundle order of the column's class, nothing dropped or repeated.
C3_ResultIsPlanInOrder ==
    col_pc = "returned" =>
        [i \in DOMAIN col_result |->
            <<col_result[i].column_name, col_result[i].test_name>>]
        = PlanFrom(dev_info)

\* a returned table whose first column sorts after its second and that holds
\* a numeric bundle
C3_Witness ==
    /\ col_pc = "returned"
    /\ Len(col_result) >= 6
    /\ col_result[1].column_name = "id"
    /\ col_result[Len(col_result)].column_name = "amount"
    /\ \E i \in DOMAIN col_result : col_result[i].test_name = "sum"

UnknownCandidate ==
    \E c \in Candidates : RawTypeOf(c) \notin KnownRawTypes

\* C8: with a candidate column of unknown raw type column_level_diff never
\* returns a table, and once it has ended it has raised.
C8_UnknownTypeRaises ==
    UnknownCandidate =>
        /\ col_pc # "returned"
        /\ col_result = <<>>
        /\ ColDone => col_pc = "raised"

\* the KeyError raised after an earlier column's tests had already run
C8_Witness ==
    /\ UnknownCandidate
    /\ col_pc = "raised"
    /\ col_err = "KeyError"
    /\ df_list # <<>>

-----------------------------------------------------------------------------
(* Properties of the diff column (SpecDiff) *)

LastFormula == df_list[Len(df_list)].diff_formula
IsText(v) == v.tag = "text"

\* h hundredths is x/y rounded to two decimals, halves away from zero
IsRounded2(h, x, y) ==
    LET err == Abs(100 * x - h * y)
    IN  /\ 2 * err <= Abs(y)
        /\ 2 * err = Abs(y) => Abs(h * y) > Abs(100 * x)

\* C6: a percentage-change diff is NULL when the prod statistic is zero,
\* whatever dev is, and the query does not fail on the division; with a
\* non-zero prod and a dev value it is (dev - prod) / prod to two decimals.
C6_PercentDiffGuarded ==
    /\ col_err # "DivisionByZero"
    /\ (df_list # <<>> /\ LastFormula = "standard_diff_formula") =>
         /\ (IsText(df.prod) /\ df.prod.n = 0) => IsNull(df.diff)
         /\ (IsText(df.prod) /\ df.prod.n # 0 /\ IsText(df.dev)) =>
               /\ IsText(df.diff)
               /\ df.diff.d = 100
               /\ IsRounded2(df.diff.n, df.dev.n - df.prod.n, df.prod.n)

\* dev avg 2, prod avg 0 on a numeric column: the run went on
C6_Witness ==
    /\ df_list # <<>>
    /\ LastFormula = "standard_diff_formula"
    /\ df.test = "avg"
    /\ IsText(df.prod) /\ df.prod.n = 0
    /\ IsText(df.dev) /\ df.dev.n = 2
    /\ IsNull(df.diff)

-----------------------------------------------------------------------------
(* Properties of row_level_diff (SpecRow) *)

RowTableRows == BagToSet(row_table)
RowsOfType(t) == {r \in RowTableRows : r.diff_type = t}

\* C4: every row of the materialised join has one diff_type of addition,
\* deletion, equal; an addition has no prod primary key, a deletion has no
\* dev primary key, and an equal row has both.
C4_ClassificationSound ==
    \A r \in RowTableRows :
        /\ r.diff_type \in {"addition", "deletion", "equal"}
        /\ r.diff_type = "addition" => IsNull(r.prod_primary_key)
        /\ r.diff_type = "deletion" => IsNull(r.dev_primary_key)
        /\ r.diff_type = "equal" =>
              ~IsNull(r.dev_primary_key) /\ ~IsNull(r.prod_primary_key)

\* the key sets of the two freshness-filtered snapshots
DevKeys == {r.pk : r \in {x \in dev_rows : x.fresh /\ IsNum(x.pk)}}
ProdKeys == {r.pk : r \in {x \in prod_rows : x.fresh /\ IsNum(x.pk)}}

ExactlyOnePerKey(t, keys, dev_side) ==
    /\ \A k \in keys :
          Cardinality({r \in RowsOfType(t) :
              (IF dev_side THEN r.dev_primary_key ELSE r.prod_primary_key) = k}) = 1
    /\ Cardinality(RowsOfType(t)) = Cardinality(keys)
    /\ \A r \in RowsOfType(t) : CopiesIn(r, row_table) = 1

\* C5: after row_level_diff the table holds exactly one addition row per key
\* only in dev, one deletion row per key only in prod and one equal row per
\* key on both sides, and nothing else.
C5_RowsMatchKeySets ==
    row_pc = "returned" =>
        /\ ExactlyOnePerKey("addition", DevKeys \ ProdKeys, TRUE)
        /\ ExactlyOnePerKey("deletion", ProdKeys \ DevKeys, FALSE)
        /\ ExactlyOnePerKey("equal", DevKeys \cap ProdKeys, TRUE)

-----------------------------------------------------------------------------
(* Properties of summary_diff (SpecSummary) *)

\* C7: summary_diff does not fail on a division, and each of its three
\* deltas is NULL when its prod count is zero.
C7_SummaryDeltasGuarded ==
    /\ sum_err # "DivisionByZero"
    /\ sum_pc = "returned" =>
          /\ sum_df[1].rowcount_prod = 0 => IsNull(sum_df[1].rowcount_diff)
          /\ sum_df[1].column_count_prod = 0 => IsNull(sum_df[1].column_count_diff)
          /\ sum_df[1].distinct_pkey_prod = 0 => IsNull(sum_df[1].distinct_pkey_diff)

-----------------------------------------------------------------------------
(* Properties of table_compare.__init__ (SpecMeta) *)

MetaRecord == catalog[meta_args[2]]
KeyMissing ==
    ~MetaRecord.present \/ MetaRecord.pkey.isnull \/ MetaRecord.fkey.isnull

\* C9: without a catalog record, or with a record whose primary or freshness
\* key is NULL, the constructor raises and no table_compare object exists;
\* a constructed object carries the keys the catalog declares.
C9_MissingKeyAborts ==
    meta_pc # "idle" =>
        /\ KeyMissing => (meta_pc = "raised" /\ tc = NoObject)
        /\ meta_pc = "constructed" =>
              /\ ~MetaRecord.pkey.isnull /\ tc.dev_pkey = MetaRecord.pkey.s
              /\ ~MetaRecord.fkey.isnull
              /\ tc.dev_freshness_key = MetaRecord.fkey.s

-----------------------------------------------------------------------------
(* Properties of the batch drivers (SpecBatch) *)

\* C10: a batch method that has ended has reached every table of
\* tables_to_compare, whatever failed on the way.
C10_FailuresIsolated ==
    batch_pc # "idle" => batch_attempted = tables_to_compare

\* C13: once a run of row_level_diff has returned, running it again against
\* the same snapshots leaves <dev_table>_row_level_diff holding the same
\* rows, each as many times as before: nothing accumulates.
C13_RowLevelDiffIdempotent ==
    [][row_returns >= 1 => row_table' = row_table]_vars

C13_Witness ==
    /\ row_returns = 2
    /\ row_table # EmptyBag
    /\ row_table = SetToBag(joined(side_cte(dev_rows), side_cte(prod_rows)))

\* C12: with an empty tables_to_compare a batch method returns without
\* raising, reaches no table (constructs no table_compare, runs no table
\* query), writes nothing to data_diff_summary and materialises no
\* row-level table.
C12_EmptyBatchIsNoOp ==
    (tables_to_compare = <<>> /\ batch_pc # "idle") =>
        /\ batch_pc = "returned"
        /\ batch_err = ""
        /\ batch_attempted = <<>>
        /\ data_diff_summary = <<>>
        /\ row_diffed = {}

C12_Witness ==
    /\ tables_to_compare = <<>>
    /\ batch_op = "schema_compare_summary_diff"
    /\ batch_pc = "returned"

-----------------------------------------------------------------------------
(* Properties of main *)

\* the tables present in both schemas whose name matches the pattern of the run
MatchingTables ==
    {t \in dev_tables \cap prod_tables : RLIKE(t, table_regex(main_regex))}
ComparedTables == {tables_to_compare[i] : i \in DOMAIN tables_to_compare}

\* every lookup and every count of the tables of the run has an answer
EveryQuerySucceeds ==
    \A t \in ComparedTables : catalog[t] = FullRecord /\ t \notin empty_prod

\* C11: a run of main(database, schema, regex) works on exactly the tables
\* that match the regex and exist in both schemas, runs the tiers in the
\* order summary, column-level, row-level, and, when every query succeeds,
\* reaches the end of the row-level tier.
C11_MainRunsThreeTiers ==
    main_pc # "idle" =>
        /\ ComparedTables = MatchingTables
        /\ EveryQuerySucceeds =>
               /\ main_pc = "returned"
               /\ main_tiers = <<"summary", "column_level", "row_level">>

-----------------------------------------------------------------------------
(* Properties of snowflake_ctx *)

Connected(i) == sf_log[i].session # NoSession

\* C14: every dispatch that connected has a session of its own, and no
\* session opened by a finished dispatch is still open, whether the dispatch
\* returned or raised.
C14_SessionsReleased ==
    /\ \A i, j \in DOMAIN sf_log :
           (i # j /\ Connected(i) /\ Connected(j)) =>
               sf_log[i].session # sf_log[j].session
    /\ \A i \in DOMAIN sf_log : sf_log[i].session \notin sessions

====
